---- MODULE Spec2Model ----
(***************************************************************************)
(* Model of khadka27/bg-remover: the POST handler of /api/remove-bg        *)
(* (src/src/app/api/remove-bg/route.ts) with its private copies of         *)
(* removeBottleBackground and optimizeProductImage, and the exported       *)
(* copies of both functions in src/src/lib/imageUtils.ts, and the         *)
(* ImageProcessor component that posts to the handler.                     *)
(*                                                                         *)
(* Several specifications are given.                                       *)
(*   Spec       one request (or one direct call of an exported function)   *)
(*              as a sequence of steps; an image is a record of its        *)
(*              container format, its dimensions and the origin of each of *)
(*              its channels, so that dimensions can be realistic.         *)
(*   SpecPixel  the pixel arithmetic of the local pipeline on small        *)
(*              images whose samples are bytes.                            *)
(*   SpecResize the Optimizer's resize step on its own, over many sizes.   *)
(*   SpecComposite  the composite step on an image and a mask of           *)
(*              independent sizes.                                         *)
(*   SpecUI     the component: drops, resets, quality changes, downloads   *)
(*              and the answers of the browser and the server, in any      *)
(*              order; SpecUIFair adds that those answers arrive.          *)
(*                                                                         *)
(* The image operations are calls of the sharp library.  sharp queues the  *)
(* operations of one chain and applies them in the fixed order of its      *)
(* pipeline (... joinChannel, threshold, blur, convolve, linear, boolean,  *)
(* ensureAlpha, extractChannel, output), not in call order; the operators  *)
(* below compose them in that order.  toBuffer() without an explicit       *)
(* format writes the format of the chain's input.                          *)
(***************************************************************************)
EXTENDS Integers, Sequences, FiniteSets, TLC

VARIABLES
  entry,               \* which function the caller invokes
  imageFile,           \* POST: formData.get("image") is a File
  file,                \* POST: the declared MIME type and the size of that File
  qualityField,        \* POST: formData.get("quality"); direct call: the quality argument
  imageBuffer,         \* the input image bytes
  apiKey,              \* process.env.REMOVE_BG_API_KEY is set
  remote,              \* what api.remove.bg answers if asked
  fault,               \* the local stage that rejects in this run, if any
  maskHasZero,         \* the fused mask of this input has a background (0) sample
  pc,                  \* position in the code
  ran,                 \* stages executed so far, in order
  quality,             \* POST's quality / optimizeProductImage's parameter
  noBackgroundBuffer,  \* what removeBottleBackground returned
  encoder,             \* the branch optimizeProductImage took and its encoder options
  response,            \* what the caller finally gets
  pix,                 \* SpecPixel: input raster and the buffers of the local pipeline
  rz,                  \* SpecResize: a size and the resize step's result
  cmp,                 \* SpecComposite: an image, a mask and the composite step's result
  ui                   \* SpecUI: the state of the ImageProcessor component

vars == <<entry, imageFile, file, qualityField, imageBuffer, apiKey, remote, fault,
          maskHasZero, pc, ran, quality, noBackgroundBuffer, encoder, response,
          pix, rz, cmp, ui>>

reqVars == <<entry, imageFile, file, qualityField, imageBuffer, apiKey, remote, fault,
             maskHasZero, pc, ran, quality, noBackgroundBuffer, encoder, response>>

inputVars == <<entry, imageFile, file, qualityField, imageBuffer, apiKey, remote, fault,
               maskHasZero>>

(***************************************************************************)
(* Bounds of the model.                                                    *)
(***************************************************************************)
\* Longest side among the sample input sizes of Spec.
MaxSide == 2000
\* Largest width and height of the rasters of SpecPixel.
MaxW == 2
MaxH == 2
\* Largest side of the sizes of SpecResize.
MaxDim == 3000
\* files dropped on the ImageProcessor component in one run
MaxDrops == 2

(***************************************************************************)
(* Program constants.                                                      *)
(***************************************************************************)
\* resize({ width: 1000, height: 1000, ... })
MaxDimension == 1000
\* Number(formData.get("quality")) || 90, and quality: number = 90
DefaultQuality == 90
\* MAX_FILE_SIZE = 20 * 1024 * 1024 of the ImageProcessor component
MAX_FILE_SIZE == 20971520

Max(a, b) == IF a >= b THEN a ELSE b
Min(a, b) == IF a <= b THEN a ELSE b

\* Math.round / libvips VIPS_ROUND_UINT of the non-negative rational a / b
RoundDiv(a, b) == (2 * a + b) \div (2 * b)

(***************************************************************************)
(* Images at the level of Spec.                                            *)
(*   dec     the bytes decode as an image                                  *)
(*   fmt     container format                                              *)
(*   bands   origin of each channel: "R","G","B","A" the input's own       *)
(*           channels, "M" the fused mask, "T" a thresholded channel,      *)
(*           "O" a constant opaque channel, "S" the remote service's       *)
(*           alpha                                                         *)
(* A lower-case tag ("a", "m", "s") is the same channel when every sample   *)
(* of it is 255.                                                           *)
(***************************************************************************)
NoImage ==
  [dec |-> FALSE, fmt |-> "none", width |-> 0, height |-> 0, bands |-> <<>>]

\* bytes that are not an image (truncated header, text, ...)
Garbage ==
  [dec |-> FALSE, fmt |-> "bytes", width |-> 0, height |-> 0, bands |-> <<>>]

Image(f, w, h, b) ==
  [dec |-> TRUE, fmt |-> f, width |-> w, height |-> h, bands |-> b]

\* metadata.hasAlpha: the image has an alpha channel
HasAlpha(img) == Len(img.bands) \in {2, 4}

\* some alpha sample of the image is below 255
Transparent(img) ==
  HasAlpha(img) /\ img.bands[Len(img.bands)] \in {"A", "M", "S", "T"}

First(s, n) == SubSeq(s, 1, Min(n, Len(s)))

(***************************************************************************)
(* sharp's encoders and channel operations, on the channel lists of Spec.  *)
(***************************************************************************)
\* .png(): a PNG holds at most four channels; further ones are dropped
PngEncode(img) == [img EXCEPT !.fmt = "png", !.bands = First(img.bands, 4)]

\* JPEG output has no alpha: colour images keep three channels, grey ones one
JpegEncode(img) ==
  [img EXCEPT !.fmt = "jpeg",
              !.bands = IF Len(img.bands) >= 3 THEN First(img.bands, 3)
                        ELSE First(img.bands, 1)]

\* .webp()
WebpEncode(img) == [img EXCEPT !.fmt = "webp", !.bands = First(img.bands, 4)]

\* .toBuffer() with no format set: the output format is the input's
SameFormatEncode(img, fmt) ==
  IF fmt = "jpeg" THEN JpegEncode(img)
  ELSE IF fmt = "webp" THEN WebpEncode(img)
  ELSE PngEncode(img)

\* .joinChannel(x): the channels of x are appended
JoinChannel(bands, more) == bands \o more

\* .ensureAlpha(): an opaque alpha channel is added if the image has none
EnsureAlpha(bands) == IF Len(bands) \in {2, 4} \/ Len(bands) > 4 THEN bands ELSE Append(bands, "O")

\* .threshold(t): the colour channels collapse to one grey channel, every
\* channel is then compared with t
ThresholdBands(bands) ==
  [i \in 1..(IF Len(bands) >= 3 THEN Len(bands) - 2 ELSE Len(bands)) |-> "T"]

\* .extractChannel(c), c counted from 0
ExtractChannel(bands, c) == <<bands[c + 1]>>

(***************************************************************************)
(* resize({ width, height, fit: "inside", withoutEnlargement }).           *)
(* Both axes shrink by the larger of width/target and height/target; the   *)
(* factor is raised to 1 when enlargement is off, and capped so that no    *)
(* axis shrinks below one pixel; each output side is rounded.              *)
(* A factor is the rational n / d.                                         *)
(***************************************************************************)
ResizeDims(w, h, o) ==
  LET hs == [n |-> w, d |-> o.width]
      vs == [n |-> h, d |-> o.height]
      larger == IF hs.n * vs.d > vs.n * hs.d THEN hs ELSE vs
      hfit == IF o.fit = "inside" THEN larger ELSE hs
      vfit == IF o.fit = "inside" THEN larger ELSE vs
      NoEnlarge(s) == IF o.withoutEnlargement /\ s.n < s.d THEN [n |-> 1, d |-> 1] ELSE s
      Cap(s, side) == IF s.n > side * s.d THEN [n |-> side, d |-> 1] ELSE s
      hf == Cap(NoEnlarge(hfit), w)
      vf == Cap(NoEnlarge(vfit), h)
  IN  <<RoundDiv(w * hf.d, hf.n), RoundDiv(h * vf.d, vf.n)>>

Resize(img, o) ==
  LET d == ResizeDims(img.width, img.height, o)
  IN  [img EXCEPT !.width = d[1], !.height = d[2]]

(***************************************************************************)
(* optimizeProductImage: the options each copy passes to sharp.            *)
(***************************************************************************)
\* route.ts with withoutEnlargement left out of the webp branch's resize
RouteOptimizerEnlarging ==
  [pngResize  |-> [width |-> MaxDimension, height |-> MaxDimension,
                   fit |-> "inside", withoutEnlargement |-> TRUE],
   webpResize |-> [width |-> MaxDimension, height |-> MaxDimension,
                   fit |-> "inside", withoutEnlargement |-> FALSE],
   png  |-> [compressionLevel |-> 9, palette |-> TRUE, quality |-> 90,
             effort |-> 10, colors |-> 256],
   webp |-> [alphaQuality |-> 100, losslessAbove |-> 95, nearLosslessAbove |-> 90,
             smartSubsample |-> TRUE, effort |-> 6]]

\* route.ts: both resize calls and the png / webp options
RouteOptimizer ==
  [pngResize  |-> [width |-> MaxDimension, height |-> MaxDimension,
                   fit |-> "inside", withoutEnlargement |-> TRUE],
   webpResize |-> [width |-> MaxDimension, height |-> MaxDimension,
                   fit |-> "inside", withoutEnlargement |-> TRUE],
   png  |-> [compressionLevel |-> 9, palette |-> TRUE, quality |-> 90,
             effort |-> 10, colors |-> 256],
   webp |-> [alphaQuality |-> 100, losslessAbove |-> 95, nearLosslessAbove |-> 90,
             smartSubsample |-> TRUE, effort |-> 6]]

\* a variant whose lossless threshold is the near-lossless one
LibOptimizerEarlyLossless ==
  [pngResize  |-> [width |-> MaxDimension, height |-> MaxDimension,
                   fit |-> "inside", withoutEnlargement |-> TRUE],
   webpResize |-> [width |-> MaxDimension, height |-> MaxDimension,
                   fit |-> "inside", withoutEnlargement |-> TRUE],
   png  |-> [compressionLevel |-> 9, palette |-> TRUE, quality |-> 90,
             effort |-> 10, colors |-> 256],
   webp |-> [alphaQuality |-> 100, losslessAbove |-> 90, nearLosslessAbove |-> 90,
             smartSubsample |-> TRUE, effort |-> 6]]

\* imageUtils.ts: the same
LibOptimizer ==
  [pngResize  |-> [width |-> MaxDimension, height |-> MaxDimension,
                   fit |-> "inside", withoutEnlargement |-> TRUE],
   webpResize |-> [width |-> MaxDimension, height |-> MaxDimension,
                   fit |-> "inside", withoutEnlargement |-> TRUE],
   png  |-> [compressionLevel |-> 9, palette |-> TRUE, quality |-> 90,
             effort |-> 10, colors |-> 256],
   webp |-> [alphaQuality |-> 100, losslessAbove |-> 95, nearLosslessAbove |-> 90,
             smartSubsample |-> TRUE, effort |-> 6]]

\* no encoder has run
NoEncoder ==
  [branch |-> "none", quality |-> 0, palette |-> FALSE, colors |-> 0, effort |-> 0,
   lossless |-> FALSE, nearLossless |-> FALSE, resized |-> FALSE]

\* sharp's check of the webp quality option: an integer between 1 and 100
\* (q is in tenths)
ValidWebpQuality(q) == q % 10 = 0 /\ q >= 10 /\ q <= 1000

\* the branch test inverted
OptimizerHasAlphaInverted(buffer) == ~HasAlpha(buffer)

\* const hasAlpha = metadata.hasAlpha || false
OptimizerHasAlpha(buffer) == HasAlpha(buffer)

\* optimizeProductImage(buffer, quality) with the options o of one copy;
\* q is in tenths.  The result is the returned buffer and the encoder used.
optimizeProductImage(buffer, q, o) ==
  IF ~buffer.dec
    THEN \* sharp(buffer).metadata() rejects: catch, return buffer
         [out |-> buffer, enc |-> [NoEncoder EXCEPT !.branch = "error"]]
  ELSE IF OptimizerHasAlpha(buffer)
    THEN [out |-> PngEncode(Resize(buffer, o.pngResize)),
          enc |-> [branch |-> "png", quality |-> o.png.quality * 10,
                   palette |-> o.png.palette, colors |-> o.png.colors,
                   effort |-> o.png.effort, lossless |-> TRUE,
                   nearLossless |-> FALSE, resized |-> TRUE]]
  ELSE IF ~ValidWebpQuality(q)
    THEN \* .webp({ quality }) throws on an invalid option: catch, return buffer
         [out |-> buffer, enc |-> [NoEncoder EXCEPT !.branch = "error"]]
  ELSE [out |-> WebpEncode(Resize(buffer, o.webpResize)),
        enc |-> [branch |-> "webp", quality |-> q, palette |-> FALSE, colors |-> 0,
                 effort |-> o.webp.effort,
                 lossless |-> q > o.webp.losslessAbove * 10,
                 nearLossless |-> q > o.webp.nearLosslessAbove * 10,
                 resized |-> TRUE]]

(***************************************************************************)
(* The inputs of one run.                                                  *)
(***************************************************************************)
\* POST serves /api/remove-bg with route.ts's functions; the functions that
\* imageUtils.ts exports are called directly.
Entries == {"POST", "libRemove", "libOptimize"}

Copy(e) == IF e = "POST" THEN "route" ELSE "lib"

Sizes ==
  {<<1, 1>>, <<800, 600>>, <<1000, 1000>>, <<1001, 1>>, <<1200, 1600>>, <<MaxSide, 1500>>}

InputImages ==
  {Image(f[1], s[1], s[2], f[2]) :
     f \in {<<"png", <<"R", "G", "B">> >>,
            <<"png", <<"R", "G", "B", "A">> >>,
            <<"png", <<"R", "G", "B", "a">> >>,
            <<"jpeg", <<"R", "G", "B">> >>},
     s \in Sizes}
  \cup {Garbage}

\* the 'quality' form field (a quality argument for a direct call), in tenths:
\* absent, "abc", "0", "-5", "150", "85.5", and integers in range
QualityFields ==
  {[kind |-> "absent", v |-> 0], [kind |-> "text", v |-> 0]}
  \cup {[kind |-> "num", v |-> x] : x \in {0, -50, 1500, 855, 10, 800, 900, 910, 950, 960, 1000}}

\* the quality argument of a direct call of optimizeProductImage: every
\* integer from 1 to 100, in tenths
DirectQualities == {[kind |-> "num", v |-> 10 * q] : q \in 1..100}

\* what api.remove.bg does when asked: fetch rejects, a non-OK response, or an
\* OK response whose body is the cut-out, an all-foreground result or no image
RemoteAnswers ==
  {[status |-> "throw", body |-> "none"], [status |-> "notok", body |-> "none"]}
  \cup {[status |-> "ok", body |-> b] : b \in {"cutout", "allfg", "garbage"}}

Faults == {"none", "edge", "color", "fusion", "composite"}

\* a File as the browser or an HTTP client declares it: its MIME type, split
\* at the slash, and its size in bytes
File(top, sub, size) == [top |-> top, sub |-> sub, size |-> size]

NoFile == File("", "", 0)

\* file.type.startsWith("image/")
IsImageType(f) == f.top = "image"

\* file.size > MAX_FILE_SIZE
TooLarge(f) == f.size > MAX_FILE_SIZE

\* uploads: an image within the bound, one of exactly the bound, one a byte
\* over it, and a file that declares no image type
Files ==
  {File("image", "png", 1024), File("image", "jpeg", MAX_FILE_SIZE),
   File("image", "png", MAX_FILE_SIZE + 1), File("text", "plain", 1024)}

\* Number(x): null is 0, a non-numeric string is NaN
JsNumber(field) ==
  [nan |-> field.kind = "text", v |-> IF field.kind = "num" THEN field.v ELSE 0]

\* Number(formData.get("quality")) || 90
PostQuality(field) ==
  LET n == JsNumber(field)
  IN  IF n.nan \/ n.v = 0 THEN DefaultQuality * 10 ELSE n.v

\* quality: number = 90 (the default applies to an omitted argument)
ParamQuality(field) ==
  IF field.kind = "absent" THEN DefaultQuality * 10 ELSE field.v

\* the body of an OK answer of the remote service for the image img
RemoteBody(kind, img) ==
  IF kind = "garbage" \/ ~img.dec THEN Garbage
  ELSE Image("png", img.width, img.height,
             <<"R", "G", "B", IF kind = "cutout" THEN "S" ELSE "s">>)

\* a media type, split at the slash
MediaType(top, sub) == [top |-> top, sub |-> sub]

\* the headers of a response that say what its body is: Content-Type and the
\* file name of Content-Disposition, split at the dots
NoHeaders == [contentType |-> MediaType("", ""), filename |-> <<>>]

\* NextResponse.json(...)
JsonHeaders == [contentType |-> MediaType("application", "json"), filename |-> <<>>]

\* route.ts 44-48: "Content-Type": "image/png" and
\* 'attachment; filename="optimized-bottle.png"'
AttachmentHeaders ==
  [contentType |-> MediaType("image", "png"), filename |-> <<"optimized-bottle", "png">>]

Pending ==
  [outcome |-> "pending", status |-> 0, message |-> "", body |-> NoImage,
   headers |-> NoHeaders]

Init ==
  /\ entry \in Entries
  /\ imageFile \in (IF entry = "POST" THEN BOOLEAN ELSE {TRUE})
  /\ file \in (IF entry = "POST" /\ imageFile THEN Files ELSE {NoFile})
  /\ qualityField \in (IF entry = "libRemove" THEN {[kind |-> "absent", v |-> 0]}
                       ELSE IF entry = "libOptimize"
                         THEN {q \in QualityFields : q.kind # "text"} \cup DirectQualities
                       ELSE QualityFields)
  /\ imageBuffer \in (IF imageFile THEN InputImages ELSE {NoImage})
  /\ apiKey \in (IF entry = "libOptimize" \/ ~imageFile THEN {FALSE} ELSE BOOLEAN)
  /\ remote \in (IF apiKey THEN RemoteAnswers ELSE {[status |-> "throw", body |-> "none"]})
  /\ fault \in (IF entry = "libOptimize" \/ ~imageFile THEN {"none"} ELSE Faults)
  /\ maskHasZero \in (IF entry = "libOptimize" \/ ~imageFile THEN {TRUE} ELSE BOOLEAN)
  /\ pc = "start"
  /\ ran = <<>>
  /\ quality = 0
  /\ noBackgroundBuffer = NoImage
  /\ encoder = NoEncoder
  /\ response = Pending
  /\ pix = [pc |-> "off"]
  /\ rz = [pc |-> "off"]
  /\ cmp = [pc |-> "off"]
  /\ ui = [pc |-> "off"]

(***************************************************************************)
(* POST (route.ts 13-57)                                                   *)
(***************************************************************************)
Http(status, message, body) ==
  [outcome |-> "http", status |-> status, message |-> message, body |-> body,
   headers |-> JsonHeaders]

\* lines 43-49: new NextResponse(optimizedBuffer, { headers }), status 200
Attachment(body) ==
  [outcome |-> "http", status |-> 200, message |-> "", body |-> body,
   headers |-> AttachmentHeaders]

\* a variant of POST without the check of lines 20-25
MissingImageUnchecked(present) == FALSE

\* if (!imageFile), for formData.get("image") being a File or null
MissingImage(present) == ~present

\* lines 16-28: read the form, default the quality, reject a missing file
ParseForm ==
  /\ entry = "POST" /\ pc = "start"
  /\ quality' = PostQuality(qualityField)
  /\ IF MissingImage(imageFile)
       THEN /\ response' = Http(400, "No image file provided", NoImage)
            /\ pc' = "done"
       ELSE /\ pc' = "postMetadata"
            /\ UNCHANGED response
  /\ UNCHANGED <<inputVars, ran, noBackgroundBuffer, encoder, pix, rz, cmp, ui>>

\* POST without the metadata() call of line 31, whose result it never uses
PostMetadataNeverThrows(img) == FALSE

\* line 31: sharp(imageBuffer).metadata() rejects what it cannot decode, and
\* POST's catch (50-56) answers 500
PostMetadataThrows(img) == ~img.dec

PostMetadata ==
  /\ entry = "POST" /\ pc = "postMetadata"
  /\ IF PostMetadataThrows(imageBuffer)
       THEN /\ response' = Http(500, "Failed to process image", NoImage)
            /\ pc' = "done"
       ELSE /\ pc' = "rbStart"
            /\ UNCHANGED response
  /\ UNCHANGED <<inputVars, ran, quality, noBackgroundBuffer, encoder, pix, rz, cmp, ui>>

\* a direct call of an exported function of imageUtils.ts
CallDirect ==
  /\ entry # "POST" /\ pc = "start"
  /\ IF entry = "libRemove"
       THEN /\ pc' = "rbStart"
            /\ UNCHANGED <<quality, noBackgroundBuffer>>
       ELSE /\ pc' = "optimize"
            /\ quality' = ParamQuality(qualityField)
            /\ noBackgroundBuffer' = imageBuffer
  /\ UNCHANGED <<inputVars, ran, encoder, response, pix, rz, cmp, ui>>

(***************************************************************************)
(* removeBottleBackground (route.ts 62-196, imageUtils.ts 14-141)          *)
(***************************************************************************)
\* the function returns buf to its caller
RbReturn(buf) ==
  /\ noBackgroundBuffer' = buf
  /\ IF entry = "POST"
       THEN /\ pc' = "optimize"
            /\ UNCHANGED response
       ELSE /\ pc' = "done"
            /\ response' = [outcome |-> "returned", status |-> 0, message |-> "", body |-> buf,
                             headers |-> NoHeaders]

\* the function rejects: POST's catch answers 500, a direct caller sees the throw
RbThrow ==
  /\ pc' = "done"
  /\ UNCHANGED noBackgroundBuffer
  /\ response' = IF entry = "POST" THEN Http(500, "Failed to process image", NoImage)
                 ELSE [outcome |-> "thrown", status |-> 0, message |-> "", body |-> NoImage,
                       headers |-> NoHeaders]

\* if (apiKey)
CheckApiKey ==
  /\ pc = "rbStart"
  /\ pc' = IF apiKey THEN "remote" ELSE "localMetadata"
  /\ UNCHANGED <<inputVars, ran, quality, noBackgroundBuffer, encoder, response, pix, rz, cmp, ui>>

\* where a rejected fetch continues: route.ts catches it next to the call
\* (91-96) and goes on to the local pipeline, imageUtils.ts has no inner try
\* and lands in the function's catch
\* a variant that asks the remote service again after a rejected fetch
AfterFetchThrowsRetry(copy) == "remote"

AfterFetchThrows(copy) == IF copy = "route" THEN "localMetadata" ELSE "rbCatch"

\* the fetch of api.remove.bg and if (response.ok) return its bytes
RemoteCall ==
  /\ pc = "remote"
  /\ ran' = Append(ran, "remote")
  /\ CASE remote.status = "ok" -> RbReturn(RemoteBody(remote.body, imageBuffer))
       [] remote.status = "notok" ->
            /\ pc' = "localMetadata"
            /\ UNCHANGED <<noBackgroundBuffer, response>>
       [] OTHER ->
            /\ pc' = AfterFetchThrows(Copy(entry))
            /\ UNCHANGED <<noBackgroundBuffer, response>>
  /\ UNCHANGED <<inputVars, quality, encoder, pix, rz, cmp, ui>>

\* Step 1: sharp(imageBuffer).metadata()
LocalMetadata ==
  /\ pc = "localMetadata"
  /\ ran' = Append(ran, "metadata")
  /\ pc' = IF imageBuffer.dec THEN "edge" ELSE "rbCatch"
  /\ UNCHANGED <<inputVars, quality, noBackgroundBuffer, encoder, response, pix, rz, cmp, ui>>

\* a stage of the local pipeline runs and either rejects or hands over to the next
Stage(name, next) ==
  /\ pc = name
  /\ ran' = Append(ran, name)
  /\ pc' = IF fault = name THEN "rbCatch" ELSE next
  /\ UNCHANGED <<inputVars, quality, noBackgroundBuffer, encoder, response, pix, rz, cmp, ui>>

\* Steps 2-4: grayscale, linear + convolve, threshold
EdgeStage == Stage("edge", "color")

\* Step 5: the colour mask
ColorStage == Stage("color", "fusion")

\* Step 6: boolean or, convolve, blur, threshold
FusionStage == Stage("fusion", "composite")

\* Step 7, the channels of withTransparency: sharp(imageBuffer).ensureAlpha()
\* .joinChannel(combinedMaskBuffer).toBuffer(); the mask is joined, then an
\* alpha channel is ensured on the result
CompositeBands(bands, maskTag) == EnsureAlpha(JoinChannel(bands, <<maskTag>>))

\* Steps 7 and 8: withTransparency is written in the input's format, then
\* re-encoded as a palette PNG and returned
CompositeStage ==
  /\ pc = "composite"
  /\ ran' = Append(ran, "composite")
  /\ IF fault = "composite"
       THEN /\ pc' = "rbCatch"
            /\ UNCHANGED <<noBackgroundBuffer, response>>
       ELSE LET joined == [imageBuffer EXCEPT
                             !.bands = CompositeBands(imageBuffer.bands,
                                                      IF maskHasZero THEN "M" ELSE "m")]
                withTransparency == SameFormatEncode(joined, imageBuffer.fmt)
            IN  RbReturn(PngEncode(withTransparency))
  /\ UNCHANGED <<inputVars, quality, encoder, pix, rz, cmp, ui>>

\* the channels the catch block of each copy returns for an input with the
\* channels bands.
\* route.ts 187-194: sharp(imageBuffer).ensureAlpha().extractChannel(3)
\*   .linear(1.5, -0.1).threshold(240).joinChannel(imageBuffer).png()
\* imageUtils.ts 139: sharp(imageBuffer).png()
FallbackBands(copy, bands) ==
  IF copy = "route"
    THEN ExtractChannel(EnsureAlpha(ThresholdBands(JoinChannel(bands, bands))), 3)
    ELSE bands

\* catch (error) of removeBottleBackground; its own sharp call rejects an
\* input that does not decode
RbCatch ==
  /\ pc = "rbCatch"
  /\ ran' = Append(ran, "fallback")
  /\ IF ~imageBuffer.dec
       THEN RbThrow
       ELSE RbReturn(PngEncode([imageBuffer EXCEPT
                                  !.bands = FallbackBands(Copy(entry), imageBuffer.bands)]))
  /\ UNCHANGED <<inputVars, quality, encoder, pix, rz, cmp, ui>>

(***************************************************************************)
(* optimizeProductImage and POST's answer (route.ts 37-49)                 *)
(***************************************************************************)
Optimizer(copy) == IF copy = "route" THEN RouteOptimizer ELSE LibOptimizer

Optimize ==
  /\ pc = "optimize"
  /\ ran' = Append(ran, "optimize")
  /\ LET r == optimizeProductImage(noBackgroundBuffer, quality, Optimizer(Copy(entry)))
     IN  /\ encoder' = r.enc
         /\ IF entry = "POST"
              THEN /\ pc' = "done"
                   /\ response' = Attachment(r.out)
              ELSE /\ pc' = "done"
                   /\ response' = [outcome |-> "returned", status |-> 0,
                                   message |-> "", body |-> r.out,
                                   headers |-> NoHeaders]
  /\ UNCHANGED <<inputVars, quality, noBackgroundBuffer, pix, rz, cmp, ui>>

Next ==
  \/ ParseForm
  \/ PostMetadata
  \/ CallDirect
  \/ CheckApiKey
  \/ RemoteCall
  \/ LocalMetadata
  \/ EdgeStage
  \/ ColorStage
  \/ FusionStage
  \/ CompositeStage
  \/ RbCatch
  \/ Optimize

Spec == Init /\ [][Next]_vars

(***************************************************************************)
(* Properties of one request.                                              *)
(***************************************************************************)
Ran(stage) == \E i \in 1..Len(ran) : ran[i] = stage

LocalStages == {"metadata", "edge", "color", "fusion", "composite"}

LocalRan == \E i \in 1..Len(ran) : ran[i] \in LocalStages

Succeeded ==
  IF entry = "POST" THEN response.outcome = "http" /\ response.status = 200
  ELSE response.outcome = "returned"

\* C1: when the edge-mask, colour-mask or fusion stage throws on a decoded
\* input, the run succeeds and what removeBottleBackground hands on, and what
\* the caller receives, is the original image (its own channels, unmodified),
\* in both copies.
C1_FallbackReturnsOriginal ==
  (pc = "done" /\ entry \in {"POST", "libRemove"} /\ imageBuffer.dec
   /\ fault \in {"edge", "color", "fusion"} /\ Ran(fault))
  => /\ Succeeded
     /\ noBackgroundBuffer.bands = imageBuffer.bands
     /\ response.body.dec
     /\ response.body.bands = imageBuffer.bands

\* C2: the remote service is asked only with an API key; the local pipeline
\* starts exactly when no key is set or the remote call failed (fetch rejected
\* or the response was not OK); an OK response's bytes are returned and no
\* local stage runs; in both copies.
C2_RemoteFirstLocalOnFailure ==
  (pc = "done" /\ entry \in {"POST", "libRemove"} /\ imageBuffer.dec)
  => /\ Ran("remote") => apiKey
     /\ LocalRan <=> (~apiKey \/ remote.status # "ok")
     /\ (apiKey /\ remote.status = "ok")
          => noBackgroundBuffer = RemoteBody(remote.body, imageBuffer)

C6_TransparentGoesToPalettePng ==
  (encoder.branch # "none" /\ Transparent(noBackgroundBuffer))
  => /\ encoder.branch = "png"
     /\ encoder.palette /\ encoder.colors <= 256 /\ encoder.effort = 10
     /\ response.body.fmt = "png"
     /\ Transparent(response.body)

C6_Witness ==
  /\ pc = "done" /\ entry = "POST" /\ encoder.branch = "png"
  /\ Transparent(noBackgroundBuffer)
  /\ noBackgroundBuffer.width > MaxDimension

\* C7: a fully opaque buffer (no alpha sample below 255, with or without an
\* alpha channel) handed to optimizeProductImage with a quality that is an
\* integer in 1..100 leaves through the lossy branch with that quality.
C7_OpaqueGoesToLossy ==
  (encoder.branch # "none" /\ noBackgroundBuffer.dec
   /\ ~Transparent(noBackgroundBuffer) /\ ValidWebpQuality(quality))
  => /\ encoder.branch = "webp"
     /\ encoder.quality = quality

\* C8: the image of every successful POST response to a valid input has sides
\* of at most 1000 and at most the input's, on every path.
C8_ResponseWithinCap ==
  (pc = "done" /\ entry = "POST" /\ imageBuffer.dec
   /\ response.outcome = "http" /\ response.status = 200 /\ response.body.dec)
  => /\ response.body.width <= MaxDimension
     /\ response.body.height <= MaxDimension
     /\ response.body.width <= imageBuffer.width
     /\ response.body.height <= imageBuffer.height


(***************************************************************************)
(* SpecResize: the resize step of optimizeProductImage on its own.         *)
(***************************************************************************)
\* no request is in progress
IdleRequest ==
  /\ entry = "POST"
  /\ imageFile = FALSE
  /\ file = NoFile
  /\ qualityField = [kind |-> "absent", v |-> 0]
  /\ imageBuffer = NoImage
  /\ apiKey = FALSE
  /\ remote = [status |-> "throw", body |-> "none"]
  /\ fault = "none"
  /\ maskHasZero = TRUE
  /\ pc = "off"
  /\ ran = <<>>
  /\ quality = 0
  /\ noBackgroundBuffer = NoImage
  /\ encoder = NoEncoder
  /\ response = Pending

\* side lengths around 1, around the cap, at round values and at the bound
DimSamples ==
  {d \in 1..MaxDim :
     \/ d <= 3
     \/ d >= MaxDimension - 3 /\ d <= MaxDimension + 3
     \/ d % 250 = 0
     \/ d \in {333, 667, 1499, 1501}
     \/ d >= MaxDim - 2}

\* the options of the resize call of one branch of one copy
ResizeOptions(copy, branch) ==
  IF branch = "png" THEN Optimizer(copy).pngResize ELSE Optimizer(copy).webpResize

InitResize ==
  /\ IdleRequest
  /\ pix = [pc |-> "off"]
  /\ cmp = [pc |-> "off"]
  /\ ui = [pc |-> "off"]
  /\ rz \in {[pc |-> "in", copy |-> c, branch |-> b, w |-> w, h |-> h, ow |-> 0, oh |-> 0] :
               c \in {"route", "lib"}, b \in {"png", "webp"},
               w \in DimSamples, h \in DimSamples}

\* .resize({ width: 1000, height: 1000, fit: "inside", withoutEnlargement: true })
ResizeStep ==
  /\ rz.pc = "in"
  /\ LET d == ResizeDims(rz.w, rz.h, ResizeOptions(rz.copy, rz.branch))
     IN  rz' = [rz EXCEPT !.pc = "out", !.ow = d[1], !.oh = d[2]]
  /\ UNCHANGED <<reqVars, pix, cmp, ui>>

NextResize == ResizeStep

SpecResize == InitResize /\ [][NextResize]_vars

\* C9: for every size (w, h) the resize step of either branch of either copy
\* yields sides of at most 1000 and at most the input's; the size is unchanged
\* when both sides are at most 1000; otherwise the longer side becomes exactly
\* 1000 and the shorter one is within one pixel of the proportional value.
C9_ResizeInsideNoUpscale ==
  rz.pc = "out" =>
    LET w == rz.w
        h == rz.h
        ow == rz.ow
        oh == rz.oh
        Near(short, long, out) ==
          /\ out * long - short * MaxDimension <= long
          /\ short * MaxDimension - out * long <= long
    IN  /\ ow >= 1 /\ oh >= 1
        /\ ow <= MaxDimension /\ oh <= MaxDimension
        /\ ow <= w /\ oh <= h
        /\ Max(w, h) <= MaxDimension => (ow = w /\ oh = h)
        /\ (Max(w, h) > MaxDimension /\ w >= h) => (ow = MaxDimension /\ Near(h, w, oh))
        /\ (Max(w, h) > MaxDimension /\ h >= w) => (oh = MaxDimension /\ Near(w, h, ow))

C9_Witness ==
  /\ rz.pc = "out" /\ rz.branch = "webp"
  /\ rz.w = 2000 /\ rz.h = 1500 /\ rz.ow = 1000 /\ rz.oh = 750

(***************************************************************************)
(* SpecPixel: the pixel arithmetic of the local pipeline.                  *)
(* A raster is a flat row-major sequence of bytes, as sharp's raw()        *)
(* buffer: sample k of pixel i (both from 0) is data[i * channels + k + 1].*)
(* Masks are single-channel rasters.  The inputs are PNG images, so the    *)
(* intermediate buffers (written in the input's format) are lossless.      *)
(***************************************************************************)
ClampByte(v) == IF v < 0 THEN 0 ELSE IF v > 255 THEN 255 ELSE v

Clamp(v, lo, hi) == IF v < lo THEN lo ELSE IF v > hi THEN hi ELSE v

\* the sample at column x, row y of a single-channel raster; coordinates
\* outside the raster take the nearest edge sample (libvips conv extends the
\* image by copying its edges)
Px(buf, w, h, x, y) == buf[Clamp(y, 0, h - 1) * w + Clamp(x, 0, w - 1) + 1]

\* sum / scale, rounded to nearest, for either sign of sum
ScaleDiv(sum, scale) ==
  IF sum >= 0 THEN RoundDiv(sum, scale) ELSE 0 - RoundDiv(0 - sum, scale)

\* kernel.scale when none is given: the sum of the kernel, at least 1
DefaultScale(kernel) ==
  LET t == kernel[1] + kernel[2] + kernel[3] + kernel[4] + kernel[5]
           + kernel[6] + kernel[7] + kernel[8] + kernel[9]
  IN  IF t < 1 THEN 1 ELSE t

\* .convolve({ width: 3, height: 3, kernel, scale, offset }): each output
\* sample is the weighted sum of the 3x3 neighbourhood divided by scale, plus
\* offset, clipped to a byte
Convolve(buf, w, h, kernel, scale, offset) ==
  [i \in 1..(w * h) |->
     LET x == (i - 1) % w
         y == (i - 1) \div w
         sum == kernel[1] * Px(buf, w, h, x - 1, y - 1)
              + kernel[2] * Px(buf, w, h, x,     y - 1)
              + kernel[3] * Px(buf, w, h, x + 1, y - 1)
              + kernel[4] * Px(buf, w, h, x - 1, y)
              + kernel[5] * Px(buf, w, h, x,     y)
              + kernel[6] * Px(buf, w, h, x + 1, y)
              + kernel[7] * Px(buf, w, h, x - 1, y + 1)
              + kernel[8] * Px(buf, w, h, x,     y + 1)
              + kernel[9] * Px(buf, w, h, x + 1, y + 1)
     IN  ClampByte(ScaleDiv(sum, scale) + offset)]

\* .linear(a, b) on bytes: a * v + b cut to a byte; a and b are in tenths
Linear(buf, a10, b10) ==
  [i \in 1..Len(buf) |->
     LET t == a10 * buf[i] + b10
     IN  IF t < 0 THEN 0 ELSE ClampByte(t \div 10)]

\* .threshold(t): a sample of at least t becomes 255, any other 0
Threshold(buf, t) == [i \in 1..Len(buf) |-> IF buf[i] >= t THEN 255 ELSE 0]

\* .grayscale(): one luminance sample per pixel, a weighted mean of R, G, B
\* (Rec. 709 weights; a grey pixel keeps its level)
Grayscale(data, n, channels) ==
  [i \in 1..n |->
     LET r == data[(i - 1) * channels + 1]
         g == data[(i - 1) * channels + 2]
         b == data[(i - 1) * channels + 3]
     IN  (2126 * r + 7152 * g + 722 * b + 5000) \div 10000]

\* kernel of Step 3
EdgeKernel == <<-1, -1, -1, -1, 8, -1, -1, -1, -1>>

\* kernel of Step 6
OnesKernel == <<1, 1, 1, 1, 1, 1, 1, 1, 1>>

\* Step 3: sharp(grayscaleBuffer).linear(1.5, -0.1).convolve({ kernel, scale: 1,
\* offset: 128 }); the convolution is applied before the linear adjustment
DetectEdges(gray, w, h) == Linear(Convolve(gray, w, h, EdgeKernel, 1, 128), 15, -1)

\* Step 4: sharp(edgesBuffer).threshold(128)
EdgeThreshold(edges) == Threshold(edges, 128)

\* the loop with r >= 150 in place of r > 150
routeColorMaskInclusive(data, imgWidth, imgHeight, channels) ==
  [j \in 1..(imgWidth * imgHeight) |->
     LET i == j - 1
         r == data[i * channels + 1]
         g == data[i * channels + 1 + 1]
         b == data[i * channels + 2 + 1]
     IN  IF r >= 150 /\ g > 100 /\ b < 100 /\ 2 * r > 3 * b THEN 255 ELSE 0]

\* route.ts 129-144: the loop that fills rawData
routeColorMask(data, imgWidth, imgHeight, channels) ==
  [j \in 1..(imgWidth * imgHeight) |->
     LET i == j - 1
         r == data[i * channels + 1]
         g == data[i * channels + 1 + 1]
         b == data[i * channels + 2 + 1]
     IN  IF r > 150 /\ g > 100 /\ b < 100 /\ 2 * r > 3 * b THEN 255 ELSE 0]

\* imageUtils.ts 78-93: the same loop
libColorMask(data, width, height, channels) ==
  [j \in 1..(width * height) |->
     LET i == j - 1
         r == data[i * channels + 1]
         g == data[i * channels + 1 + 1]
         b == data[i * channels + 2 + 1]
     IN  IF r > 150 /\ g > 100 /\ b < 100 /\ 2 * r > 3 * b THEN 255 ELSE 0]

ColorMask(copy, data, w, h, channels) ==
  IF copy = "route" THEN routeColorMask(data, w, h, channels)
  ELSE libColorMask(data, w, h, channels)

\* .boolean(mask, "or"): bitwise OR, sample by sample, with a mask whose
\* samples are 0 or 255
BooleanOr(a, b) == [i \in 1..Len(a) |-> IF a[i] = 255 \/ b[i] = 255 THEN 255 ELSE Max(a[i], b[i])]

\* .blur(sigma): Gaussian smoothing, here with the 3x3 binomial kernel
BlurKernel == <<1, 2, 1, 2, 4, 2, 1, 2, 1>>

Blur(buf, w, h) == Convolve(buf, w, h, BlurKernel, DefaultScale(BlurKernel), 0)

\* one call of a sharp chain: the operation and its arguments (tenths for
\* linear's factor and offset)
Call(op, a, b) == [op |-> op, a |-> a, b |-> b]

\* Step 6 as route.ts 151-164 chains it on sharp(thresholdBuffer), in call order
routeFusionChain ==
  <<Call("boolean", 0, 0), Call("convolve", 0, 0), Call("blur", 2, 0),
    Call("threshold", 128, 0)>>

\* Step 6 as imageUtils.ts 102-116 chains it, in call order
libFusionChain ==
  <<Call("boolean", 0, 0), Call("convolve", 0, 0), Call("blur", 1, 0),
    Call("blur", 2, 0), Call("linear", 15, -200), Call("threshold", 128, 0)>>

FusionChain(copy) == IF copy = "route" THEN routeFusionChain ELSE libFusionChain

\* The calls of a chain only record options; toBuffer() then runs sharp's
\* pipeline, which applies the recorded operations in its own fixed order,
\* whatever the order of the calls.  The operations Step 6 uses, in that order:
SharpPipelineOrder == <<"threshold", "blur", "convolve", "linear", "boolean">>

\* the last call of op in a chain (a repeated call replaces the earlier one)
LastCall(chain, op) ==
  chain[CHOOSE i \in 1..Len(chain) :
          chain[i].op = op /\ \A k \in (i + 1)..Len(chain) : chain[k].op # op]

\* the operations toBuffer() executes for a chain, in execution order
RECURSIVE ExecutedFrom(_, _)
ExecutedFrom(chain, k) ==
  IF k > Len(SharpPipelineOrder) THEN <<>>
  ELSE LET op == SharpPipelineOrder[k]
       IN  (IF \E i \in 1..Len(chain) : chain[i].op = op
              THEN <<LastCall(chain, op)>> ELSE <<>>)
           \o ExecutedFrom(chain, k + 1)

Executed(chain) == ExecutedFrom(chain, 1)

\* one executed operation of Step 6 on the mask buf
ApplyCall(c, buf, colorMaskBuffer, w, h) ==
  CASE c.op = "threshold" -> Threshold(buf, c.a)
    [] c.op = "blur" -> Blur(buf, w, h)
    [] c.op = "convolve" -> Convolve(buf, w, h, OnesKernel, DefaultScale(OnesKernel), 0)
    [] c.op = "linear" -> Linear(buf, c.a, c.b)
    [] OTHER -> BooleanOr(buf, colorMaskBuffer)

RECURSIVE ApplyCalls(_, _, _, _, _)
ApplyCalls(calls, buf, colorMaskBuffer, w, h) ==
  IF calls = <<>> THEN buf
  ELSE ApplyCalls(Tail(calls), ApplyCall(Head(calls), buf, colorMaskBuffer, w, h),
                  colorMaskBuffer, w, h)

\* Step 6: combinedMaskBuffer
CombineMasks(copy, thresholdBuffer, colorMaskBuffer, w, h) ==
  ApplyCalls(Executed(FusionChain(copy)), thresholdBuffer, colorMaskBuffer, w, h)

\* the samples of pixel i (from 1) of a raster
Pixel(data, channels, i) == SubSeq(data, (i - 1) * channels + 1, i * channels)

\* Step 7 on one pixel: sharp(imageBuffer).ensureAlpha().joinChannel(mask)
\* appends the mask sample to the pixel's samples and adds an opaque alpha
\* only if the result has none; the PNG written keeps the first four samples
CompositePixel(px, m) ==
  LET joined == Append(px, m)
      ensured == IF Len(joined) \in {2, 4} \/ Len(joined) > 4 THEN joined
                 ELSE Append(joined, 255)
  IN  First(ensured, 4)

\* Step 7: withTransparency, as pixels
Composite(data, n, channels, mask) ==
  [i \in 1..n |-> CompositePixel(Pixel(data, channels, i), mask[i])]

\* the orange of the juice and the grey of a backdrop
Palette == {<<200, 150, 50>>, <<50, 50, 50>>}

RSamples == {0, 50, 150, 151, 200, 255}
GSamples == {0, 50, 100, 101, 150, 255}
BSamples == {0, 50, 66, 99, 100, 255}

\* colours of the one-pixel and uniform rasters
Colours == {<<r, g, b>> : r \in RSamples, g \in GSamples, b \in BSamples}

GreyLevels == {<<v, v, v>> : v \in {0, 1, 127, 128, 129, 254, 255}}

\* alpha of pixel i of a 4-channel raster
AlphaOf(pattern, i) ==
  IF pattern = "opaque" THEN 255
  ELSE IF pattern = "clear" THEN 0
  ELSE IF i % 2 = 1 THEN 255 ELSE 64

RECURSIVE Flatten(_)
Flatten(pxs) == IF pxs = <<>> THEN <<>> ELSE Head(pxs) \o Flatten(Tail(pxs))

\* the raw samples of a raster whose pixel i has the colour col[i]
RasterData(col, n, channels, pattern) ==
  Flatten([i \in 1..n |-> IF channels = 4 THEN Append(col[i], AlphaOf(pattern, i)) ELSE col[i]])

Shapes ==
  {<<3, "none">>, <<4, "opaque">>, <<4, "clear">>, <<4, "mixed">>}

\* the rasters of one size: every colouring over the palette, and the uniform
\* rasters in the sample colours and grey levels
RastersOfSize(w, h) ==
  {[width |-> w, height |-> h, channels |-> sh[1],
    data |-> RasterData(col, w * h, sh[1], sh[2])] :
     sh \in Shapes,
     col \in [1..(w * h) -> Palette]
             \cup {[i \in 1..(w * h) |-> c] : c \in Colours \cup GreyLevels}}

\* rasters of every size up to MaxW x MaxH
Rasters == UNION {RastersOfSize(w, h) : w \in 1..MaxW, h \in 1..MaxH}

InitPixel ==
  /\ IdleRequest
  /\ rz = [pc |-> "off"]
  /\ cmp = [pc |-> "off"]
  /\ ui = [pc |-> "off"]
  /\ \E copy \in {"route", "lib"}, ra \in Rasters :
       pix = [pc |-> "grayscale", copy |-> copy,
              width |-> ra.width, height |-> ra.height, channels |-> ra.channels,
              data |-> ra.data,
              grayscaleBuffer |-> <<>>, edgesBuffer |-> <<>>, thresholdBuffer |-> <<>>,
              colorMaskBuffer |-> <<>>, fusionSteps |-> <<>>,
              combinedMaskBuffer |-> <<>>, withTransparency |-> <<>>]

\* Step 2
PixGrayscale ==
  /\ pix.pc = "grayscale"
  /\ pix' = [pix EXCEPT !.pc = "edges",
               !.grayscaleBuffer = Grayscale(pix.data, pix.width * pix.height, pix.channels)]
  /\ UNCHANGED <<reqVars, rz, cmp, ui>>

\* Step 3
PixEdges ==
  /\ pix.pc = "edges"
  /\ pix' = [pix EXCEPT !.pc = "threshold",
               !.edgesBuffer = DetectEdges(pix.grayscaleBuffer, pix.width, pix.height)]
  /\ UNCHANGED <<reqVars, rz, cmp, ui>>

\* Step 4
PixThreshold ==
  /\ pix.pc = "threshold"
  /\ pix' = [pix EXCEPT !.pc = "color",
               !.thresholdBuffer = EdgeThreshold(pix.edgesBuffer)]
  /\ UNCHANGED <<reqVars, rz, cmp, ui>>

\* Step 5
PixColorMask ==
  /\ pix.pc = "color"
  /\ pix' = [pix EXCEPT !.pc = "combine",
               !.colorMaskBuffer = ColorMask(pix.copy, pix.data, pix.width, pix.height,
                                             pix.channels)]
  /\ UNCHANGED <<reqVars, rz, cmp, ui>>

\* Step 6
PixCombine ==
  /\ pix.pc = "combine"
  /\ pix' = [pix EXCEPT !.pc = "composite",
               !.fusionSteps = [k \in 1..Len(Executed(FusionChain(pix.copy))) |->
                                  Executed(FusionChain(pix.copy))[k].op],
               !.combinedMaskBuffer = CombineMasks(pix.copy, pix.thresholdBuffer,
                                                   pix.colorMaskBuffer, pix.width, pix.height)]
  /\ UNCHANGED <<reqVars, rz, cmp, ui>>

\* Step 7
PixComposite ==
  /\ pix.pc = "composite"
  /\ pix' = [pix EXCEPT !.pc = "done",
               !.withTransparency = Composite(pix.data, pix.width * pix.height,
                                              pix.channels, pix.combinedMaskBuffer)]
  /\ UNCHANGED <<reqVars, rz, cmp, ui>>

NextPixel ==
  \/ PixGrayscale
  \/ PixEdges
  \/ PixThreshold
  \/ PixColorMask
  \/ PixCombine
  \/ PixComposite

SpecPixel == InitPixel /\ [][NextPixel]_vars

PixelCount == pix.width * pix.height

\* every pixel of the input raster has the same colour
Uniform ==
  \A i \in 1..PixelCount :
    SubSeq(Pixel(pix.data, pix.channels, i), 1, 3) = SubSeq(Pixel(pix.data, pix.channels, 1), 1, 3)

\* C4: the colour mask holds 255 for a pixel exactly when r > 150, g > 100,
\* b < 100 and r > 1.5 b, and 0 otherwise, in both copies; (200,150,50) gives
\* 255 and (50,50,50) gives 0.
C4_ColorMaskPredicate ==
  pix.pc \in {"combine", "composite", "done"} =>
    /\ Len(pix.colorMaskBuffer) = PixelCount
    /\ \A i \in 1..PixelCount :
         LET px == Pixel(pix.data, pix.channels, i)
             fg == px[1] > 150 /\ px[2] > 100 /\ px[3] < 100 /\ 10 * px[1] > 15 * px[3]
         IN  /\ pix.colorMaskBuffer[i] = (IF fg THEN 255 ELSE 0)
             /\ SubSeq(px, 1, 3) = <<200, 150, 50>> => pix.colorMaskBuffer[i] = 255
             /\ SubSeq(px, 1, 3) = <<50, 50, 50>> => pix.colorMaskBuffer[i] = 0

C4_Witness ==
  /\ pix.pc = "done" /\ pix.copy = "lib" /\ pix.channels = 4 /\ PixelCount > 1
  /\ \E i, j \in 1..PixelCount : pix.colorMaskBuffer[i] = 255 /\ pix.colorMaskBuffer[j] = 0

\* C5: on a uniform image the edge mask is 0 everywhere.
C5_UniformGivesEmptyEdgeMask ==
  (pix.pc \in {"color", "combine", "composite", "done"} /\ Uniform)
  => \A i \in 1..PixelCount : pix.thresholdBuffer[i] = 0

\* C10: the composite has 4 samples per pixel; R, G, B are the input's and A
\* is the fused mask's sample, for 3-channel and for 4-channel inputs.
C10_CompositeAlphaIsMask ==
  pix.pc = "done" =>
    \A i \in 1..PixelCount :
      LET out == pix.withTransparency[i]
      IN  /\ Len(out) = 4
          /\ SubSeq(out, 1, 3) = SubSeq(Pixel(pix.data, pix.channels, i), 1, 3)
          /\ out[4] = pix.combinedMaskBuffer[i]

(***************************************************************************)
(* SpecComposite: the composite step (Step 7) on an image and a mask whose *)
(* sizes are chosen independently.  Neither copy compares the mask's size  *)
(* with the image's before joinChannel.                                    *)
(***************************************************************************)
\* what the composite step yields: a composited raster or a rejection
Composited(w, h, pixels) ==
  [status |-> "ok", error |-> "", width |-> w, height |-> h, pixels |-> pixels]

CompositeRejected(error) ==
  [status |-> "error", error |-> error, width |-> 0, height |-> 0, pixels |-> <<>>]

\* route.ts 167-170: sharp(imageBuffer).ensureAlpha().joinChannel(mask).
\* The mask is decoded with its own size; libvips' bandjoin brings images of
\* different sizes to the larger size by adding zero samples along the right
\* and the bottom.
routeJoinMask(data, w, h, channels, mask, mw, mh) ==
  LET ow == Max(w, mw)
      oh == Max(h, mh)
  IN  Composited(ow, oh,
        [i \in 1..(ow * oh) |->
           LET x == (i - 1) % ow
               y == (i - 1) \div ow
               px == IF x < w /\ y < h THEN Pixel(data, channels, y * w + x + 1)
                     ELSE [k \in 1..channels |-> 0]
               m == IF x < mw /\ y < mh THEN mask[y * mw + x + 1] ELSE 0
           IN  CompositePixel(px, m)])

\* imageUtils.ts 119-122: joinChannel(mask, { raw: { width, height,
\* channels: 1 } }) with the image's width and height: the mask's samples
\* are read as a raster of the image's size, whatever size they were written
\* with; sharp rejects a raw buffer whose length is not width * height
libJoinMask(data, width, height, channels, mask, mw, mh) ==
  IF Len(mask) # width * height THEN CompositeRejected("RawSize")
  ELSE Composited(width, height, Composite(data, width * height, channels, mask))

JoinMask(copy, data, w, h, channels, mask, mw, mh) ==
  IF copy = "route" THEN routeJoinMask(data, w, h, channels, mask, mw, mh)
  ELSE libJoinMask(data, w, h, channels, mask, mw, mh)

\* single-colour images of every size within the bounds, with 3 or 4 channels
CompositeImages ==
  {[width |-> w, height |-> h, channels |-> ch,
    data |-> RasterData([i \in 1..(w * h) |-> c], w * h, ch, "opaque")] :
     w \in 1..MaxW, h \in 1..MaxH, ch \in {3, 4}, c \in Palette}

\* binary masks of one size
MasksOfSize(mw, mh) ==
  {[width |-> mw, height |-> mh, data |-> d] : d \in [1..(mw * mh) -> {0, 255}]}

CompositeMasks == UNION {MasksOfSize(mw, mh) : mw \in 1..MaxW, mh \in 1..MaxH}

InitComposite ==
  /\ IdleRequest
  /\ pix = [pc |-> "off"]
  /\ rz = [pc |-> "off"]
  /\ ui = [pc |-> "off"]
  /\ \E copy \in {"route", "lib"}, img \in CompositeImages, mask \in CompositeMasks :
       cmp = [pc |-> "composite", copy |-> copy, image |-> img, mask |-> mask,
              result |-> CompositeRejected("")]

\* Step 7
CompositeStep ==
  /\ cmp.pc = "composite"
  /\ cmp' = [cmp EXCEPT !.pc = "done",
               !.result = JoinMask(cmp.copy, cmp.image.data, cmp.image.width,
                                   cmp.image.height, cmp.image.channels,
                                   cmp.mask.data, cmp.mask.width, cmp.mask.height)]
  /\ UNCHANGED <<reqVars, pix, rz, ui>>

NextComposite == CompositeStep

SpecComposite == InitComposite /\ [][NextComposite]_vars

\* the mask's width or height differs from the image's
MaskSizeDiffers ==
  cmp.mask.width # cmp.image.width \/ cmp.mask.height # cmp.image.height

NoStageTwice == \A i, j \in 1..Len(ran) : i # j => ran[i] # ran[j]

\* the request ended with an error status or a rejection
Failed ==
  \/ response.outcome = "thrown"
  \/ response.outcome = "http" /\ response.status # 200

\* C12: within one request no stage runs more than once; a request that has
\* ended is in exactly one of the terminal states succeeded and failed, and
\* no step is possible after it; before the end there is no response.
C12_StagesOnceThenTerminal ==
  /\ NoStageTwice
  /\ pc = "done" => /\ Succeeded # Failed
                    /\ ~ENABLED Next
  /\ pc # "done" => response = Pending

C12_Witness ==
  /\ pc = "done" /\ Succeeded /\ entry = "POST"
  /\ ran = <<"remote", "metadata", "edge", "color", "fusion", "composite", "optimize">>

\* q, a quality in tenths, is an integer from 1 to 100
IsQualitySetting(q) == q % 10 = 0 /\ q >= 10 /\ q <= 1000

\* C13: whatever the 'quality' form field holds, the quality that POST hands
\* to optimizeProductImage is an integer in 1..100.
C13_PostQualityInRange ==
  (entry = "POST" /\ Ran("optimize")) => IsQualitySetting(quality)

\* POST has called removeBottleBackground for the uploaded file
ReachedPipeline ==
  /\ entry = "POST"
  /\ pc \in {"rbStart", "remote", "localMetadata", "edge", "color", "fusion",
             "composite", "rbCatch", "optimize"}

\* C14: a file whose MIME type is not an image type, or whose size exceeds
\* MAX_FILE_SIZE, never reaches the background-removal pipeline through POST.
C14_OnlyValidFilesReachPipeline ==
  ReachedPipeline => (IsImageType(file) /\ ~TooLarge(file))

\* C15: on the opaque branch, for every quality from 1 to 100, lossless
\* encoding is on exactly when quality > 95 and near-lossless encoding exactly
\* when quality > 90; at 100 one of the two is on.  Both copies.
C15_LosslessThresholds ==
  (Ran("optimize") /\ encoder.branch = "webp" /\ IsQualitySetting(quality))
  => /\ encoder.lossless <=> quality > 950
     /\ encoder.nearLossless <=> quality > 900
     /\ quality = 1000 => (encoder.lossless \/ encoder.nearLossless)

C15_Witness ==
  /\ entry = "libOptimize" /\ pc = "done" /\ encoder.branch = "webp"
  /\ quality = 950 /\ ~encoder.lossless /\ encoder.nearLossless

\* C17: a POST whose form carries no 'image' file is answered with status
\* 400 and the message "No image file provided", and neither
\* removeBottleBackground nor optimizeProductImage is invoked for it.
C17_MissingImageIs400 ==
  (entry = "POST" /\ ~imageFile)
  => /\ pc \in {"start", "done"}
     /\ ran = <<>> /\ noBackgroundBuffer = NoImage /\ encoder = NoEncoder
     /\ pc = "done" => response = Http(400, "No image file provided", NoImage)

C17_Witness ==
  /\ entry = "POST" /\ ~imageFile /\ pc = "done"
  /\ response.status = 400 /\ response.message = "No image file provided"

(***************************************************************************)
(* The order of the operations of mask fusion (SpecPixel).                 *)
(***************************************************************************)
\* every occurrence of op a in the sequence s comes before every one of b,
\* and both occur
Before(s, a, b) ==
  /\ \E i \in 1..Len(s) : s[i] = a
  /\ \E i \in 1..Len(s) : s[i] = b
  /\ \A i, j \in 1..Len(s) : (s[i] = a /\ s[j] = b) => i < j

\* C16: mask fusion executes the per-pixel OR, then the 3x3 all-ones
\* dilation, then the blur, then the threshold at 128; the blur never runs
\* before the dilation, in either copy.
C16_FusionOrder ==
  pix.pc \in {"composite", "done"} =>
    /\ Before(pix.fusionSteps, "boolean", "convolve")
    /\ Before(pix.fusionSteps, "convolve", "blur")
    /\ Before(pix.fusionSteps, "blur", "threshold")

(***************************************************************************)
(* SpecUI: the ImageProcessor component.  Its handlers run to their next   *)
(* await in one step; the browser's image load, the server's answer and    *)
(* the user's clicks interleave freely.  ui.inv[i] is the invocation of    *)
(* processImage for the i-th file dropped.                                 *)
(***************************************************************************)
\* a URL held in component state: a blob: object URL or a data: URL with its
\* MIME type, together with what it refers to (the file it was made for, the
\* format of the bytes, whether some pixel is transparent)
NoUrl == [scheme |-> "none", mime |-> "", of |-> 0, fmt |-> "", transparent |-> FALSE]

\* URL.createObjectURL(blob) for the response to the request for file i
BlobUrl(i, fmt, transparent) ==
  [scheme |-> "blob", mime |-> "", of |-> i, fmt |-> fmt, transparent |-> transparent]

\* canvas.toDataURL(mime): a data: URL; the bytes are of the type it names
DataUrl(i, mime, transparent) ==
  [scheme |-> "data", mime |-> mime, of |-> i,
   fmt |-> IF mime = "image/png" THEN "png" ELSE "webp", transparent |-> transparent]

\* url.startsWith("data:image/png")
StartsWithDataPng(url) == url.scheme = "data" /\ url.mime = "image/png"

\* the bodies of a 200 answer of /api/remove-bg: the palette PNG of the alpha
\* branch, with or without a transparent pixel, or the WebP of the opaque one
ServerBodies ==
  {[fmt |-> "png", transparent |-> TRUE], [fmt |-> "png", transparent |-> FALSE],
   [fmt |-> "webp", transparent |-> FALSE]}

\* values the slider can report (min 10, max 100, step 1)
SliderValues == {v \in 10..100 : v \in {10, 100}}

NoInvocation ==
  [pc |-> "idle", file |-> NoFile, quality |-> 0, result |-> "none"]

NoCompress == [pc |-> "idle", src |-> NoUrl, quality |-> 0]

NoDownload == [extension |-> "", fmt |-> ""]

\* useState(...) initial values, nothing in flight
InitialUi ==
  [isUploading |-> FALSE, isProcessing |-> FALSE, originalImage |-> 0,
   processedImage |-> NoUrl, error |-> "", imageDetails |-> 0,
   qualityLevel |-> DefaultQuality, compressedImage |-> NoUrl,
   compressedSize |-> "null", activeTab |-> "original",
   drops |-> 0, inv |-> [i \in 1..MaxDrops |-> NoInvocation],
   compress |-> NoCompress, download |-> NoDownload]

InitUI ==
  /\ IdleRequest
  /\ pix = [pc |-> "off"]
  /\ rz = [pc |-> "off"]
  /\ cmp = [pc |-> "off"]
  /\ ui = InitialUi

\* resetState (68-76)
resetState(s) ==
  [s EXCEPT !.originalImage = 0, !.processedImage = NoUrl, !.compressedImage = NoUrl,
            !.compressedSize = "null", !.error = "", !.imageDetails = 0,
            !.activeTab = "original"]

\* the effect of lines 61-66, run after a render in which processedImage or
\* isProcessing changed
AutoSwitch(old, new) ==
  IF /\ new.processedImage # old.processedImage \/ new.isProcessing # old.isProcessing
     /\ new.processedImage # NoUrl /\ ~new.isProcessing
    THEN [new EXCEPT !.activeTab = "processed"]
    ELSE new

\* useDropzone's accept: image/* and maxSize: MAX_FILE_SIZE
DropzoneAccepts(f) == IsImageType(f) /\ f.size <= MAX_FILE_SIZE

\* processImage up to its first await (80-90)
StartProcessImage(s, f) ==
  [s EXCEPT !.isUploading = TRUE, !.error = "", !.drops = s.drops + 1,
            !.inv[s.drops + 1] = [pc |-> "awaitLoad", file |-> f,
                                  quality |-> s.qualityLevel, result |-> "none"]]

\* onDrop (147-172); the drop zone is rendered while originalImage is null
onDrop(f) ==
  /\ ui.originalImage = 0
  /\ ui.drops < MaxDrops
  /\ LET acceptedFiles == IF DropzoneAccepts(f) THEN <<f>> ELSE <<>>
         s == resetState([ui EXCEPT !.error = ""])
     IN  ui' = AutoSwitch(ui,
                 IF Len(acceptedFiles) = 0 THEN s
                 ELSE IF ~IsImageType(acceptedFiles[1])
                   THEN [s EXCEPT !.error = "Please upload an image file"]
                 ELSE IF TooLarge(acceptedFiles[1])
                   THEN [s EXCEPT !.error = "File too large. Maximum size is 20MB"]
                 ELSE StartProcessImage(s, acceptedFiles[1]))
  /\ UNCHANGED <<reqVars, pix, rz, cmp>>

\* img.onload resolves the promise of line 87: processImage goes on to the
\* fetch (93-112)
ImageLoaded(i) ==
  /\ ui.inv[i].pc = "awaitLoad"
  /\ ui' = AutoSwitch(ui,
             [ui EXCEPT !.imageDetails = i, !.originalImage = i,
                        !.isUploading = FALSE, !.isProcessing = TRUE,
                        !.inv[i].pc = "awaitFetch"])
  /\ UNCHANGED <<reqVars, pix, rz, cmp>>

\* the browser cannot decode the file: it fires the image's error event, for
\* which lines 87-90 register no handler, so the promise never settles
ImageLoadFails(i) ==
  /\ ui.inv[i].pc = "awaitLoad"
  /\ ui' = [ui EXCEPT !.inv[i].pc = "loadFailed"]
  /\ UNCHANGED <<reqVars, pix, rz, cmp>>

\* the browser answers the image load of invocation i
BrowserAnswers(i) == ImageLoaded(i) \/ ImageLoadFails(i)

\* the fetch of line 109 settles: a 200 body (122-132), a non-OK status
\* (114-121) or a network error; catch and finally (133-141)
ApiAnswers(i) ==
  /\ ui.inv[i].pc = "awaitFetch"
  /\ \/ \E b \in ServerBodies :
          ui' = AutoSwitch(ui,
                  [ui EXCEPT !.processedImage = BlobUrl(i, b.fmt, b.transparent),
                             !.compressedImage = BlobUrl(i, b.fmt, b.transparent),
                             !.compressedSize = "blob.size",
                             !.isProcessing = FALSE,
                             !.inv[i].pc = "finished", !.inv[i].result = "processed"])
     \/ \E message \in {"Failed to process image", "No image file provided",
                        "Failed to fetch"} :
          ui' = AutoSwitch(ui,
                  [ui EXCEPT !.error = message, !.isProcessing = FALSE,
                             !.inv[i].pc = "finished", !.inv[i].result = "error"])
  /\ UNCHANGED <<reqVars, pix, rz, cmp>>

\* the Start Over button (369-377), rendered while originalImage is set
StartOver ==
  /\ ui.originalImage # 0
  /\ ui' = AutoSwitch(ui, resetState(ui))
  /\ UNCHANGED <<reqVars, pix, rz, cmp>>

\* the quality panel and the download button are rendered in the results
\* view when processing is complete (291, 584)
PanelShown == ui.originalImage # 0 /\ ui.processedImage # NoUrl /\ ~ui.isProcessing

\* handleQualityChange (260-267) and compressImage up to its await (196-204);
\* one compressImage is in flight at a time
handleQualityChange(q) ==
  /\ PanelShown
  /\ ui.compress.pc = "idle"
  /\ ui' = [ui EXCEPT !.qualityLevel = q,
                      !.compress = [pc |-> "awaitLoad", src |-> ui.processedImage,
                                    quality |-> q]]
  /\ UNCHANGED <<reqVars, pix, rz, cmp>>

\* compressImage after its await (206-241): PNG if a pixel is transparent,
\* else WebP; a browser that cannot encode WebP answers toDataURL with a PNG
compressImage ==
  /\ ui.compress.pc = "awaitLoad"
  /\ \E canEncodeWebp \in BOOLEAN :
       LET src == ui.compress.src
           mime == IF src.transparent \/ ~canEncodeWebp THEN "image/png" ELSE "image/webp"
       IN  ui' = [ui EXCEPT !.compressedImage = DataUrl(src.of, mime, src.transparent),
                            !.compressedSize = "base64",
                            !.compress = NoCompress]
  /\ UNCHANGED <<reqVars, pix, rz, cmp>>

\* handleDownload (269-286): the extension of the file name, and the format
\* of the bytes the link points to
handleDownload ==
  /\ PanelShown
  /\ IF ui.compressedImage = NoUrl \/ ui.imageDetails = 0 THEN UNCHANGED ui
     ELSE LET isTransparent == StartsWithDataPng(ui.compressedImage)
              extension == IF isTransparent THEN "png" ELSE "webp"
          IN  ui' = [ui EXCEPT !.download = [extension |-> extension,
                                             fmt |-> ui.compressedImage.fmt]]
  /\ UNCHANGED <<reqVars, pix, rz, cmp>>

NextUI ==
  \/ \E f \in Files : onDrop(f)
  \/ \E i \in 1..MaxDrops : BrowserAnswers(i)
  \/ \E i \in 1..MaxDrops : ApiAnswers(i)
  \/ StartOver
  \/ \E q \in SliderValues : handleQualityChange(q)
  \/ compressImage
  \/ handleDownload

SpecUI == InitUI /\ [][NextUI]_vars

\* the browser delivers the outcome of every image load and the server
\* answers every request
SpecUIFair ==
  /\ SpecUI
  /\ \A i \in 1..MaxDrops : WF_vars(BrowserAnswers(i)) /\ WF_vars(ApiAnswers(i))

(***************************************************************************)
(* Properties of the component (SpecUI, SpecUIFair).                       *)
(***************************************************************************)
\* processImage was only ever started for files the drop zone may pass on
DropZoneStartsOnlyValidFiles ==
  \A i \in 1..MaxDrops :
    ui.inv[i].pc # "idle" => (IsImageType(ui.inv[i].file) /\ ~TooLarge(ui.inv[i].file))

\* every request of the component carries a quality from 1 to 100
ComponentQualityInRange ==
  \A i \in 1..MaxDrops :
    ui.inv[i].pc # "idle" => (ui.inv[i].quality >= 1 /\ ui.inv[i].quality <= 100)

\* C18: whenever processedImage is set, it is the result for the file shown
\* as originalImage; so is compressedImage.  A response to a request started
\* before the latest resetState or drop sets none of them.
C18_ProcessedIsForOriginal ==
  /\ ui.processedImage # NoUrl =>
       (ui.originalImage # 0 /\ ui.processedImage.of = ui.originalImage)
  /\ ui.compressedImage # NoUrl =>
       (ui.originalImage # 0 /\ ui.compressedImage.of = ui.originalImage)

\* invocation i of processImage has been started
Started(i) == ui.inv[i].pc # "idle"

\* invocation i has run to its end and has set processedImage or error
Finished(i) ==
  ui.inv[i].pc = "finished" /\ ui.inv[i].result \in {"processed", "error"}

\* C19: every invocation of processImage eventually finishes, having set
\* processedImage or error, with isUploading and isProcessing false, whether
\* the image loads or not and whatever the API call yields.
C19_ProcessImageFinishes ==
  \A i \in 1..MaxDrops :
    Started(i) ~> (Finished(i) /\ ~ui.isUploading /\ ~ui.isProcessing)

\* C20: the extension handleDownload puts in the file name is the format of
\* the bytes of compressedImage.
C20_ExtensionMatchesFormat ==
  ui.download # NoDownload => ui.download.extension = ui.download.fmt

(***************************************************************************)
(* What a successful POST response says about its body (Spec).             *)
(***************************************************************************)
\* the extension of a file name: what follows its last dot
Extension(filename) == filename[Len(filename)]

\* C21: for every successful POST response the declared Content-Type and the
\* extension of the attachment's file name are the format of the bytes
\* returned, on the PNG branch, the WebP branch and the error path of the
\* optimizer.  Stated for bodies that are images at all.
C21_HeadersMatchBody ==
  (entry = "POST" /\ pc = "done" /\ Succeeded /\ response.body.dec)
  => /\ response.headers.contentType = MediaType("image", response.body.fmt)
     /\ Extension(response.headers.filename) = response.body.fmt
====
